---- MODULE Spec2Model ----
(***************************************************************************)
(* Model of scripts/benchmarks_ci.py: the controller __main and the tool   *)
(* provisioner init_tools.  Every collaborator call (dotnet.install,       *)
(* benchview.install, dotnet.info, micro_benchmarks.build,                 *)
(* micro_benchmarks.run, benchview.run_scripts) is a blocking call, taken  *)
(* in two steps: the call (a "pending" entry is appended to the log) and   *)
(* the return, which is either a normal return or a raised exception.      *)
(***************************************************************************)
EXTENDS Integers, Sequences, FiniteSets, TLC

\* ------------------------------------------------------------------ bounds
MaxFrameworks == 2      \* longest --frameworks list explored
MaxToolCalls == 2       \* init_tools calls made by the provisioner driver

\* ------------------------------------------------------------ input values
FrameworkIds == {"net6.0", "net7.0"}
Monikers == {"net6.0", "net6.0-windows", "net7.0"}
Architectures == {"x64", "arm64"}
Versions == {"latest"}
None == "<None>"
Unparsed == [unparsed |-> TRUE]     \* args before parse_args has returned
SubmissionNames == {None, "", "nightly"}

SeqsUpTo(S, n) == UNION {[1..k -> S] : k \in 1..n}

VARIABLES
    argv,                       \* sys.argv[1:], as the options it spells
    resolver,                   \* FrameworkAction's framework -> moniker table
    args,                       \* the parsed namespace, Unparsed before parsing
    loggers,                    \* setup_loggers has run
    pc,                         \* position in __main / init_tools
    target_framework_monikers,  \* __main local
    tools_args,                 \* parameters of the running init_tools call
    channels,                   \* init_tools local
    environ,                    \* os.environ['PYTHON_SCRIPT_TARGET_FRAMEWORKS']
    idx,                        \* position of the for loop over args.frameworks
    calls,                      \* log of collaborator calls, in call order
    marker,                     \* semaphore files present in the tools folder
    tool_calls,                 \* log of init_tools calls
    caller,                     \* who called init_tools: "main" or "driver"
    outcome,                    \* "Running", "Done" or "Failed"
    error                       \* the exception that ended __main

vars == <<argv, resolver, args, loggers, pc, target_framework_monikers,
          tools_args, channels, environ, idx, calls, marker, tool_calls,
          caller, outcome, error>>

\* ------------------------------------------------- collaborators' functions
\* micro_benchmarks.FrameworkAction.get_channel: a total map, coarser than
\* the monikers.
get_channel(moniker) ==
    CASE moniker = "net6.0" -> "6.0"
      [] moniker = "net6.0-windows" -> "6.0"
      [] moniker = "net7.0" -> "7.0"

\* micro_benchmarks.FrameworkAction.get_target_framework_monikers
get_target_framework_monikers(frameworks) ==
    [i \in 1..Len(frameworks) |-> resolver[frameworks[i]]]

\* how a collaborator call can end: a fatal error is a raised exception; a
\* benchmark run can also report an ordinary failure and return normally
CallResults == {"ok", "raised"}
RunResults == {"ok", "failed", "raised"}

\* --------------------------------------------------------- python helpers
\* truth value of an optional string: None and '' are falsy
Truthy(v) == v # None /\ v # ""

RECURSIVE Join(_, _)
Join(sep, s) ==
    IF Len(s) = 0 THEN ""
    ELSE IF Len(s) = 1 THEN s[1]
    ELSE s[1] \o sep \o Join(sep, Tail(s))

\* ------------------------------------------------------ decisions of __main
\* line 194: generate_benchview_data and not benchview_submission_name
MissingSubmissionName_none_only(a) ==
    a.generate_benchview_data /\ a.benchview_submission_name = None
MissingSubmissionName(a) ==
    a.generate_benchview_data /\ ~Truthy(a.benchview_submission_name)

\* line 226: if not args.run_only
BuildRequested_always(a) == TRUE
BuildRequested(a) == ~a.run_only

\* line 238: if not args.build_only
RunRequested_unless_reporting(a) ==
    ~a.build_only \/ a.generate_benchview_data
RunRequested(a) == ~a.build_only

\* the monikers handed to micro_benchmarks.build (line 232)
BuildMonikers_first(tfms) == <<tfms[1]>>
BuildMonikers(tfms) == tfms

\* No call of __main or init_tools is inside a try block: a raised exception
\* leaves the function, a normal return (whatever was returned) goes on.
Uncaught_swallow_build(op, result) ==
    result = "raised" /\ op # "micro_benchmarks.build"
Uncaught_abort_on_failure(op, result) == result # "ok"
Uncaught(op, result) == result = "raised"

\* statement order of __main (lines 188-238): the label that follows each
\* statement when it completes normally, "__main" standing for the entry
Sequel_build_first(label) ==
    CASE label = "__main" -> "validate_runtime"
      [] label = "validate_runtime" -> "process_arguments"
      [] label = "process_arguments" -> "setup_loggers"
      [] label = "setup_loggers" -> "check_benchview"
      [] label = "check_benchview" -> "get_monikers"
      [] label = "get_monikers" -> "set_environ"
      [] label = "init_tools" -> "run_gate"
      [] label = "set_environ" -> "dotnet_info"
      [] label = "dotnet_info" -> "build"
      [] label = "build" -> "init_tools"
      [] label = "run_gate" -> "run_loop"
Sequel_parse_before_runtime(label) ==
    CASE label = "__main" -> "process_arguments"
      [] label = "validate_runtime" -> "setup_loggers"
      [] label = "process_arguments" -> "validate_runtime"
      [] label = "setup_loggers" -> "check_benchview"
      [] label = "check_benchview" -> "get_monikers"
      [] label = "get_monikers" -> "init_tools"
      [] label = "init_tools" -> "set_environ"
      [] label = "set_environ" -> "dotnet_info"
      [] label = "dotnet_info" -> "build"
      [] label = "build" -> "run_gate"
      [] label = "run_gate" -> "run_loop"
Sequel_environ_after_build(label) ==
    CASE label = "__main" -> "validate_runtime"
      [] label = "validate_runtime" -> "process_arguments"
      [] label = "process_arguments" -> "setup_loggers"
      [] label = "setup_loggers" -> "check_benchview"
      [] label = "check_benchview" -> "get_monikers"
      [] label = "get_monikers" -> "init_tools"
      [] label = "init_tools" -> "dotnet_info"
      [] label = "set_environ" -> "run_gate"
      [] label = "dotnet_info" -> "build"
      [] label = "build" -> "set_environ"
      [] label = "run_gate" -> "run_loop"
Sequel_rebuild(label) ==
    CASE label = "__main" -> "validate_runtime"
      [] label = "validate_runtime" -> "process_arguments"
      [] label = "process_arguments" -> "setup_loggers"
      [] label = "setup_loggers" -> "check_benchview"
      [] label = "check_benchview" -> "get_monikers"
      [] label = "get_monikers" -> "init_tools"
      [] label = "init_tools" -> "set_environ"
      [] label = "set_environ" -> "dotnet_info"
      [] label = "dotnet_info" -> "build"
      [] label = "build" -> "dotnet_info"
      [] label = "run_gate" -> "run_loop"
Sequel(label) ==
    CASE label = "__main" -> "validate_runtime"
      [] label = "validate_runtime" -> "process_arguments"
      [] label = "process_arguments" -> "setup_loggers"
      [] label = "setup_loggers" -> "check_benchview"
      [] label = "check_benchview" -> "get_monikers"
      [] label = "get_monikers" -> "init_tools"
      [] label = "init_tools" -> "set_environ"
      [] label = "set_environ" -> "dotnet_info"
      [] label = "dotnet_info" -> "build"
      [] label = "build" -> "run_gate"
      [] label = "run_gate" -> "run_loop"

\* the for loop of line 239 moves to the next framework after each run
NextIndex_retry_failed(i, result) == IF result = "failed" THEN i ELSE i + 1
NextIndex(i, result) == i + 1

\* init_tools (lines 65-77) consults no semaphore file and writes none
SemaphoreFound_by_key(m, key) == key \in m
SemaphoreFound(m, key) == FALSE
SemaphoreAfter_first_install(m, key, op) ==
    IF op = "dotnet.install" THEN m \cup {key} ELSE m
SemaphoreAfter(m, key, op) == m

\* ------------------------------------------------------------ log helpers
Entry(op, arg) ==
    [op |-> op, arg |-> arg, result |-> "pending", inv |-> Len(tool_calls)]
Call(op, arg) == calls' = Append(calls, Entry(op, arg))
Return(result) ==
    calls' = [calls EXCEPT ![Len(calls)].result = result]
Active == calls[Len(calls)]

ToolKey(t) == <<t.architecture, t.version, t.target_framework_monikers>>

\* an exception leaves __main: the process ends with its traceback
Raise(err) ==
    /\ outcome' = "Failed"
    /\ error' = err
    /\ pc' = "exit"

\* an exception leaves init_tools: it reaches the caller
RaiseFromTools(err) ==
    /\ tool_calls' = [tool_calls EXCEPT ![Len(tool_calls)].result = "raised"]
    /\ IF caller = "main"
       THEN Raise(err)
       ELSE /\ pc' = "driver"
            /\ UNCHANGED <<outcome, error>>

\* the statement after the init_tools call, in whoever made the call
AfterInitTools == IF caller = "main" THEN Sequel("init_tools") ELSE "driver"

\* init_tools is entered with its parameters bound (lines 55-70)
EnterInitTools(params) ==
    /\ tools_args' = params
    /\ channels' = [i \in 1..Len(params.target_framework_monikers) |->
                      get_channel(params.target_framework_monikers[i])]
    /\ IF SemaphoreFound(marker, ToolKey(params))
       THEN /\ tool_calls' = Append(tool_calls,
                                    [params |-> params, result |-> "ok"])
            /\ pc' = AfterInitTools
       ELSE /\ tool_calls' = Append(tool_calls,
                                    [params |-> params, result |-> "pending"])
            /\ pc' = "dotnet_install"

\* ----------------------------------------------------------------- __main
\* line 188
ValidateRuntime ==
    /\ pc = "validate_runtime"
    /\ \E supported \in BOOLEAN :
         IF supported
         THEN pc' = Sequel(pc) /\ UNCHANGED <<outcome, error>>
         ELSE Raise("UnsupportedRuntimeError")
    /\ UNCHANGED <<argv, resolver, args, loggers, target_framework_monikers,
                   tools_args, channels, environ, idx, calls, marker,
                   tool_calls, caller>>

\* line 189: argparse accepts the tokens or exits with a usage error
ProcessArguments ==
    /\ pc = "process_arguments"
    /\ \E accepted \in BOOLEAN :
         IF accepted
         THEN args' = argv /\ pc' = Sequel(pc) /\ UNCHANGED <<outcome, error>>
         ELSE Raise("ArgumentError") /\ UNCHANGED args
    /\ UNCHANGED <<argv, resolver, loggers, target_framework_monikers,
                   tools_args, channels, environ, idx, calls, marker,
                   tool_calls, caller>>

\* lines 190-191
SetupLoggers ==
    /\ pc = "setup_loggers"
    /\ loggers' = TRUE
    /\ pc' = Sequel(pc)
    /\ UNCHANGED <<argv, resolver, args, target_framework_monikers,
                   tools_args, channels, environ, idx, calls, marker,
                   tool_calls, caller, outcome, error>>

\* lines 193-196
CheckBenchviewArguments ==
    /\ pc = "check_benchview"
    /\ IF MissingSubmissionName(args)
       THEN Raise("RuntimeError")
       ELSE pc' = Sequel(pc) /\ UNCHANGED <<outcome, error>>
    /\ UNCHANGED <<argv, resolver, args, loggers, target_framework_monikers,
                   tools_args, channels, environ, idx, calls, marker,
                   tool_calls, caller>>

\* lines 198-200
GetMonikers ==
    /\ pc = "get_monikers"
    /\ target_framework_monikers' =
           get_target_framework_monikers(args.frameworks)
    /\ pc' = Sequel(pc)
    /\ UNCHANGED <<argv, resolver, args, loggers, tools_args, channels,
                   environ, idx, calls, marker, tool_calls, caller, outcome,
                   error>>

\* lines 202-207: __main calls init_tools
MainCallsInitTools ==
    /\ pc = "init_tools"
    /\ caller = "main"
    /\ EnterInitTools([architecture |-> args.architecture,
                       version |-> args.dotnet_version,
                       target_framework_monikers |->
                           target_framework_monikers])
    /\ UNCHANGED <<argv, resolver, args, loggers, target_framework_monikers,
                   environ, idx, calls, marker, caller, outcome, error>>

\* ------------------------------------------------------------- init_tools
\* lines 71-76
CallDotnetInstall ==
    /\ pc = "dotnet_install"
    /\ Call("dotnet.install", channels)
    /\ pc' = "in_dotnet_install"
    /\ UNCHANGED <<argv, resolver, args, loggers, target_framework_monikers,
                   tools_args, channels, environ, idx, marker, tool_calls,
                   caller, outcome, error>>

ReturnDotnetInstall ==
    /\ pc = "in_dotnet_install"
    /\ \E result \in CallResults :
         /\ Return(result)
         /\ marker' = IF result = "ok"
                      THEN SemaphoreAfter(marker, ToolKey(tools_args),
                                          Active.op)
                      ELSE marker
         /\ IF Uncaught(Active.op, result)
            THEN RaiseFromTools("ToolInstallError")
            ELSE /\ pc' = "benchview_install"
                 /\ UNCHANGED <<tool_calls, outcome, error>>
    /\ UNCHANGED <<argv, resolver, args, loggers, target_framework_monikers,
                   tools_args, channels, environ, idx, caller>>

\* line 77
CallBenchviewInstall ==
    /\ pc = "benchview_install"
    /\ Call("benchview.install", <<>>)
    /\ pc' = "in_benchview_install"
    /\ UNCHANGED <<argv, resolver, args, loggers, target_framework_monikers,
                   tools_args, channels, environ, idx, marker, tool_calls,
                   caller, outcome, error>>

ReturnBenchviewInstall ==
    /\ pc = "in_benchview_install"
    /\ \E result \in CallResults :
         /\ Return(result)
         /\ marker' = IF result = "ok"
                      THEN SemaphoreAfter(marker, ToolKey(tools_args),
                                          Active.op)
                      ELSE marker
         /\ IF Uncaught(Active.op, result)
            THEN RaiseFromTools("ToolInstallError")
            ELSE /\ tool_calls' =
                       [tool_calls EXCEPT ![Len(tool_calls)].result = "ok"]
                 /\ pc' = AfterInitTools
                 /\ UNCHANGED <<outcome, error>>
    /\ UNCHANGED <<argv, resolver, args, loggers, target_framework_monikers,
                   tools_args, channels, environ, idx, caller>>

\* ------------------------------------------------------- __main, continued
\* lines 214-216
SetEnviron ==
    /\ pc = "set_environ"
    /\ environ' = Join(";", target_framework_monikers)
    /\ pc' = Sequel(pc)
    /\ UNCHANGED <<argv, resolver, args, loggers, target_framework_monikers,
                   tools_args, channels, idx, calls, marker, tool_calls,
                   caller, outcome, error>>

\* line 219
CallDotnetInfo ==
    /\ pc = "dotnet_info"
    /\ Call("dotnet.info", <<>>)
    /\ pc' = "in_dotnet_info"
    /\ UNCHANGED <<argv, resolver, args, loggers, target_framework_monikers,
                   tools_args, channels, environ, idx, marker, tool_calls,
                   caller, outcome, error>>

ReturnDotnetInfo ==
    /\ pc = "in_dotnet_info"
    /\ \E result \in CallResults :
         /\ Return(result)
         /\ IF Uncaught(Active.op, result)
            THEN Raise("DotnetInfoError")
            ELSE pc' = Sequel("dotnet_info") /\ UNCHANGED <<outcome, error>>
    /\ UNCHANGED <<argv, resolver, args, loggers, target_framework_monikers,
                   tools_args, channels, environ, idx, marker, tool_calls,
                   caller>>

\* lines 221-235 (the CSharpProject object is plain data and is left out)
Build ==
    /\ pc = "build"
    /\ IF BuildRequested(args)
       THEN /\ Call("micro_benchmarks.build",
                    BuildMonikers(target_framework_monikers))
            /\ pc' = "in_build"
       ELSE /\ pc' = Sequel(pc)
            /\ UNCHANGED calls
    /\ UNCHANGED <<argv, resolver, args, loggers, target_framework_monikers,
                   tools_args, channels, environ, idx, marker, tool_calls,
                   caller, outcome, error>>

ReturnBuild ==
    /\ pc = "in_build"
    /\ \E result \in CallResults :
         /\ Return(result)
         /\ IF Uncaught(Active.op, result)
            THEN Raise("BuildFailure")
            ELSE pc' = Sequel("build") /\ UNCHANGED <<outcome, error>>
    /\ UNCHANGED <<argv, resolver, args, loggers, target_framework_monikers,
                   tools_args, channels, environ, idx, marker, tool_calls,
                   caller>>

\* line 238; falling off the end of __main (line 249) ends the process
RunGate ==
    /\ pc = "run_gate"
    /\ IF RunRequested(args)
       THEN /\ pc' = Sequel(pc)
            /\ idx' = 1
            /\ UNCHANGED outcome
       ELSE /\ pc' = "exit"
            /\ outcome' = "Done"
            /\ UNCHANGED idx
    /\ UNCHANGED <<argv, resolver, args, loggers, target_framework_monikers,
                   tools_args, channels, environ, calls, marker, tool_calls,
                   caller, error>>

\* lines 239-246: the next framework of the for loop
CallRun ==
    /\ pc = "run_loop"
    /\ idx <= Len(args.frameworks)
    /\ Call("micro_benchmarks.run", <<args.frameworks[idx]>>)
    /\ pc' = "in_run"
    /\ UNCHANGED <<argv, resolver, args, loggers, target_framework_monikers,
                   tools_args, channels, environ, idx, marker, tool_calls,
                   caller, outcome, error>>

\* the run returns normally ("ok", or "failed" for an ordinary benchmark
\* failure it reports without raising) or raises
ReturnRun ==
    /\ pc = "in_run"
    /\ \E result \in RunResults :
         /\ Return(result)
         /\ IF Uncaught(Active.op, result)
            THEN Raise("RunFailure") /\ UNCHANGED idx
            ELSE /\ pc' = "run_loop"
                 /\ idx' = NextIndex(idx, result)
                 /\ UNCHANGED <<outcome, error>>
    /\ UNCHANGED <<argv, resolver, args, loggers, target_framework_monikers,
                   tools_args, channels, environ, marker, tool_calls, caller>>

\* line 248, once the loop is exhausted
CallRunScripts ==
    /\ pc = "run_loop"
    /\ idx > Len(args.frameworks)
    /\ Call("benchview.run_scripts", <<>>)
    /\ pc' = "in_run_scripts"
    /\ UNCHANGED <<argv, resolver, args, loggers, target_framework_monikers,
                   tools_args, channels, environ, idx, marker, tool_calls,
                   caller, outcome, error>>

ReturnRunScripts ==
    /\ pc = "in_run_scripts"
    /\ \E result \in CallResults :
         /\ Return(result)
         /\ IF Uncaught(Active.op, result)
            THEN Raise("ReportFailure")
            ELSE pc' = "exit" /\ outcome' = "Done" /\ UNCHANGED error
    /\ UNCHANGED <<argv, resolver, args, loggers, target_framework_monikers,
                   tools_args, channels, environ, idx, marker, tool_calls,
                   caller>>

\* ------------------------------------------------- the provisioner's driver
\* init_tools called directly, again and again on one host
DriverMonikers == {"net6.0", "net7.0"}
ToolParams ==
    [architecture : Architectures, version : Versions,
     target_framework_monikers : SeqsUpTo(DriverMonikers, MaxFrameworks)]

DriverCallsInitTools ==
    /\ pc = "driver"
    /\ Len(tool_calls) < MaxToolCalls
    /\ \E params \in ToolParams : EnterInitTools(params)
    /\ UNCHANGED <<argv, resolver, args, loggers, target_framework_monikers,
                   environ, idx, calls, marker, caller, outcome, error>>

\* ------------------------------------------------------------ specifications
Arguments ==
    [build_only : BOOLEAN, run_only : BOOLEAN,
     generate_benchview_data : BOOLEAN,
     benchview_submission_name : SubmissionNames,
     frameworks : SeqsUpTo(FrameworkIds, MaxFrameworks),
     architecture : Architectures, dotnet_version : Versions]

InitCommon ==
    /\ args = Unparsed
    /\ loggers = FALSE
    /\ target_framework_monikers = <<>>
    /\ tools_args = None
    /\ channels = <<>>
    /\ environ = None
    /\ idx = 0
    /\ calls = <<>>
    /\ marker = {}
    /\ tool_calls = <<>>
    /\ outcome = "Running"
    /\ error = None

Init ==
    /\ argv \in Arguments
    /\ resolver \in [FrameworkIds -> Monikers]
    /\ pc = Sequel("__main")
    /\ caller = "main"
    /\ InitCommon

Next ==
    \/ ValidateRuntime
    \/ ProcessArguments
    \/ SetupLoggers
    \/ CheckBenchviewArguments
    \/ GetMonikers
    \/ MainCallsInitTools
    \/ CallDotnetInstall
    \/ ReturnDotnetInstall
    \/ CallBenchviewInstall
    \/ ReturnBenchviewInstall
    \/ SetEnviron
    \/ CallDotnetInfo
    \/ ReturnDotnetInfo
    \/ Build
    \/ ReturnBuild
    \/ RunGate
    \/ CallRun
    \/ ReturnRun
    \/ CallRunScripts
    \/ ReturnRunScripts

Spec == Init /\ [][Next]_vars

\* __main is one sequential thread and every collaborator call is a blocking
\* call that returns or raises: a step that can be taken is taken
FairSpec == Spec /\ WF_vars(Next)

InitTools ==
    /\ argv = None
    /\ resolver = None
    /\ pc = "driver"
    /\ caller = "driver"
    /\ InitCommon

NextTools ==
    \/ DriverCallsInitTools
    \/ CallDotnetInstall
    \/ ReturnDotnetInstall
    \/ CallBenchviewInstall
    \/ ReturnBenchviewInstall

SpecTools == InitTools /\ [][NextTools]_vars

\* ------------------------------------------- add_arguments.__is_valid_datetime
\* A string is a sequence of one-character strings.
Digits == {"0", "1", "2", "3", "4", "5", "6", "7", "8", "9"}
NonZeroDigits == Digits \ {"0"}
DigitValue(c) ==
    CASE c = "0" -> 0 [] c = "1" -> 1 [] c = "2" -> 2 [] c = "3" -> 3
      [] c = "4" -> 4 [] c = "5" -> 5 [] c = "6" -> 6 [] c = "7" -> 7
      [] c = "8" -> 8 [] c = "9" -> 9 [] c = " " -> 0
CharAt(str, p) == IF p \in 1..Len(str) THEN str[p] ELSE "<end>"

\* the format of line 129, directive by directive
DatetimeFormat ==
    <<"%Y", "-", "%m", "-", "%d", "T", "%H", ":", "%M", ":", "%S", "Z">>
Directives == {"%Y", "%m", "%d", "%H", "%M", "%S"}

\* what strptime lets a two-character and a one-character field be:
\* %m 1[0-2]|0[1-9]|[1-9]     %d 3[0-1]|[1-2]\d|0[1-9]|[1-9]| [1-9]
\* %H 2[0-3]|[0-1]\d|\d       %M [0-5]\d|\d       %S 6[0-1]|[0-5]\d|\d
TwoCharField(directive) ==
    CASE directive = "%m" ->
            ({"1"} \X {"0", "1", "2"}) \cup ({"0"} \X NonZeroDigits)
      [] directive = "%d" ->
            ({"3"} \X {"0", "1"}) \cup ({"1", "2"} \X Digits)
            \cup ({"0", " "} \X NonZeroDigits)
      [] directive = "%H" ->
            ({"2"} \X {"0", "1", "2", "3"}) \cup ({"0", "1"} \X Digits)
      [] directive = "%M" -> {"0", "1", "2", "3", "4", "5"} \X Digits
      [] directive = "%S" ->
            ({"6"} \X {"0", "1"})
            \cup ({"0", "1", "2", "3", "4", "5"} \X Digits)
      [] OTHER -> {}
OneCharField(directive) ==
    CASE directive \in {"%m", "%d"} -> NonZeroDigits
      [] directive \in {"%H", "%M", "%S"} -> Digits
      [] OTHER -> {}

\* the ways a directive matches the string at position p: length and value
FieldMatches(directive, str, p) ==
    IF directive = "%Y"
    THEN IF \A i \in 0..3 : CharAt(str, p + i) \in Digits
         THEN {[len |-> 4,
                val |-> 1000 * DigitValue(str[p]) + 100 * DigitValue(str[p + 1])
                        + 10 * DigitValue(str[p + 2]) + DigitValue(str[p + 3])]}
         ELSE {}
    ELSE (IF <<CharAt(str, p), CharAt(str, p + 1)>> \in TwoCharField(directive)
          THEN {[len |-> 2,
                 val |-> 10 * DigitValue(str[p]) + DigitValue(str[p + 1])]}
          ELSE {})
         \cup
         (IF CharAt(str, p) \in OneCharField(directive)
          THEN {[len |-> 1, val |-> DigitValue(str[p])]}
          ELSE {})

\* strptime compiles the format with re.IGNORECASE
UpperCase(c) == CASE c = "t" -> "T" [] c = "z" -> "Z" [] OTHER -> c

RECURSIVE MatchFrom(_, _, _)
\* the matches of the rest of the format from position p: where each ends
\* and the field values it read (the literals between the fields leave the
\* string at most one match)
MatchFrom(str, p, fmt) ==
    IF fmt = <<>> THEN {[end |-> p, vals |-> <<>>]}
    ELSE IF Head(fmt) \in Directives
    THEN UNION {{[end |-> r.end, vals |-> <<f.val>> \o r.vals] :
                    r \in MatchFrom(str, p + f.len, Tail(fmt))} :
                f \in FieldMatches(Head(fmt), str, p)}
    ELSE IF UpperCase(CharAt(str, p)) = Head(fmt)
    THEN MatchFrom(str, p + 1, Tail(fmt))
    ELSE {}

IsLeap(year) == (year % 4 = 0 /\ year % 100 # 0) \/ year % 400 = 0
DaysInMonth(year, month) ==
    IF month = 2 THEN (IF IsLeap(year) THEN 29 ELSE 28)
    ELSE IF month \in {4, 6, 9, 11} THEN 30
    ELSE 31

\* the datetime constructor, which strptime calls with the values it read
ValidDatetime(v) ==
    /\ v[1] \in 1..9999
    /\ v[2] \in 1..12
    /\ v[3] \in 1..DaysInMonth(v[1], v[2])
    /\ v[4] \in 0..23
    /\ v[5] \in 0..59
    /\ v[6] \in 0..59

\* the string matches the format's pattern and nothing is left over
MatchesFormat(str) ==
    \E r \in MatchFrom(str, 1, DatetimeFormat) : r.end = Len(str) + 1

\* datetime.strptime(dt, '%Y-%m-%dT%H:%M:%SZ') returns: no ValueError for a
\* mismatch, for unconverted data or from the datetime constructor
StrptimeSucceeds(str) ==
    \E r \in MatchFrom(str, 1, DatetimeFormat) :
        r.end = Len(str) + 1 /\ ValidDatetime(r.vals)

Pad2(n) == <<CHOOSE c \in Digits : DigitValue(c) = n \div 10,
             CHOOSE c \in Digits : DigitValue(c) = n % 10>>
Pad4(n) == Pad2(n \div 100) \o Pad2(n % 100)
\* the parsed time written back in the format
Formatted(str) ==
    LET v == (CHOOSE r \in MatchFrom(str, 1, DatetimeFormat) : TRUE).vals
    IN Pad4(v[1]) \o <<"-">> \o Pad2(v[2]) \o <<"-">> \o Pad2(v[3]) \o <<"T">>
       \o Pad2(v[4]) \o <<":">> \o Pad2(v[5]) \o <<":">> \o Pad2(v[6])
       \o <<"Z">>

\* line 130: return dt
ReturnedDatetime_formatted(dt) == Formatted(dt)
ReturnedDatetime(dt) == dt

\* lines 132-133: 'Datetime "{}" is in the wrong format.'.format(dt)
WrongFormatMessage(dt) ==
    <<"Datetime \"">> \o dt \o <<"\" is in the wrong format.">>

\* lines 127-133, as argparse applies it to --cli-source-timestamp
IsValidDatetime ==
    /\ pc = "parse_timestamp"
    /\ IF StrptimeSucceeds(argv.cli_source_timestamp)
       THEN /\ args' = [cli_source_timestamp |->
                           ReturnedDatetime(argv.cli_source_timestamp)]
            /\ pc' = "parsed"
            /\ UNCHANGED <<outcome, error>>
       ELSE /\ Raise(WrongFormatMessage(argv.cli_source_timestamp))
            /\ UNCHANGED args
    /\ UNCHANGED <<argv, resolver, loggers, target_framework_monikers,
                   tools_args, channels, environ, idx, calls, marker,
                   tool_calls, caller>>

\* the --cli-source-timestamp values explored: one choice per field
YearTexts == {<<"2", "0", "1", "9">>, <<"2", "0", "2", "0">>,
              <<"0", "0", "0", "0">>, <<"2", "0", "1">>}
DateSeparators == {<<"-">>, <<"/">>}
MonthTexts == {<<"0", "2">>, <<"2">>, <<"0", "4">>, <<"1", "2">>,
               <<"1", "3">>, <<"0", "0">>}
DayTexts == {<<"2", "9">>, <<"3", "0">>, <<"3", "1">>, <<"3", "2">>,
             <<"1">>, <<" ", "1">>, <<"0", "0">>}
TimeMarks == {<<"T">>, <<"t">>, <<" ">>}
HourTexts == {<<"2", "3">>, <<"2", "4">>, <<"7">>}
MinuteTexts == {<<"5", "9">>, <<"6", "0">>}
SecondTexts == {<<"5", "9">>, <<"6", "0">>, <<"5">>}
ZoneMarks == {<<"Z">>, <<"z">>, <<>>, <<"Z", "Z">>}
TimestampInputs ==
    {y \o s \o m \o s \o d \o t \o h \o <<":">> \o mi \o <<":">> \o sec \o z :
        y \in YearTexts, s \in DateSeparators, m \in MonthTexts,
        d \in DayTexts, t \in TimeMarks, h \in HourTexts, mi \in MinuteTexts,
        sec \in SecondTexts, z \in ZoneMarks}

InitDatetime ==
    /\ argv \in [cli_source_timestamp : TimestampInputs]
    /\ resolver = None
    /\ pc = "parse_timestamp"
    /\ caller = "argparse"
    /\ InitCommon

NextDatetime == IsValidDatetime

SpecDatetime == InitDatetime /\ [][NextDatetime]_vars

\* ------------------------------------------------------- reading the log
Indices(op) == {i \in 1..Len(calls) : calls[i].op = op}
Completed(i) == calls[i].result # "pending"
InstallOps == {"dotnet.install", "benchview.install"}
IsRun(e) == e.op = "micro_benchmarks.run"
RunLog == SelectSeq(calls, IsRun)
\* the frameworks run so far, in call order
RunFrameworks == [i \in 1..Len(RunLog) |-> RunLog[i].arg[1]]
IsPhase(e) == e.op # "dotnet.info"
\* the collaborators called so far, dotnet.info aside, in call order
PhaseOps ==
    [i \in 1..Len(SelectSeq(calls, IsPhase)) |->
        SelectSeq(calls, IsPhase)[i].op]
NoneRaised == \A i \in 1..Len(calls) : calls[i].result # "raised"
AllOk == \A i \in 1..Len(calls) : calls[i].result = "ok"
FullMode(a) == ~a.build_only /\ ~a.run_only
RunOnlyMode(a) == a.run_only /\ ~a.build_only
RECURSIVE Repeat(_, _)
Repeat(x, n) == IF n = 0 THEN <<>> ELSE <<x>> \o Repeat(x, n - 1)

\* ------------------------------------------------------------------ claims
\* C1: in every mode, both install calls have completed before any build or
\* run call is made; the build call, when there is one, has completed before
\* the first run call; the report call is made only after a run call has
\* been made, and has completed, for every requested framework.
C1_PhaseOrdering ==
    /\ \A i \in Indices("micro_benchmarks.build")
              \cup Indices("micro_benchmarks.run") :
         \A op \in InstallOps :
            \E j \in Indices(op) : j < i /\ Completed(j)
    /\ \A b \in Indices("micro_benchmarks.build") :
         \A r \in Indices("micro_benchmarks.run") : b < r /\ Completed(b)
    /\ \A p \in Indices("benchview.run_scripts") :
         /\ RunFrameworks = args.frameworks
         /\ \A r \in Indices("micro_benchmarks.run") : r < p /\ Completed(r)

C1_Witness ==
    /\ outcome = "Done"
    /\ Indices("micro_benchmarks.build") # {}
    /\ Cardinality(Indices("micro_benchmarks.run")) >= 2
    /\ Indices("benchview.run_scripts") # {}

\* C2: a full-mode invocation with a submission name given for the report
\* and every collaborator succeeding ends having made exactly one build call
\* carrying all resolved monikers, one run call per requested framework in
\* input order, and exactly one report call, which is the last call.
C2_FullModeCalls ==
    (/\ outcome = "Done"
     /\ FullMode(argv)
     /\ argv.generate_benchview_data
     /\ AllOk)
    => /\ Cardinality(Indices("micro_benchmarks.build")) = 1
       /\ \A b \in Indices("micro_benchmarks.build") :
            calls[b].arg = [i \in 1..Len(argv.frameworks) |->
                               resolver[argv.frameworks[i]]]
       /\ RunFrameworks = argv.frameworks
       /\ Indices("benchview.run_scripts") = {Len(calls)}

C2_Witness ==
    /\ outcome = "Done"
    /\ FullMode(argv)
    /\ argv.generate_benchview_data
    /\ AllOk
    /\ argv.frameworks = <<"net6.0", "net7.0">>
    /\ resolver["net6.0"] # resolver["net7.0"]

\* C3: with --build-only no run call and no report call is ever made,
\* whatever the reporting flags and the framework list.
C3_BuildOnlyNoRunNoReport ==
    argv.build_only =>
        /\ Indices("micro_benchmarks.run") = {}
        /\ Indices("benchview.run_scripts") = {}

C3_Witness ==
    /\ outcome = "Done"
    /\ argv.build_only
    /\ ~argv.run_only
    /\ argv.generate_benchview_data
    /\ Indices("micro_benchmarks.build") # {}

\* C4: with --run-only (and not --build-only) no build call is ever made,
\* the installs come first, and an invocation that ends normally has called
\* the toolchain install, the reporting-tool install, one run per requested
\* framework in order, and then the report.
C4_RunOnlyPath ==
    RunOnlyMode(argv) =>
        /\ Indices("micro_benchmarks.build") = {}
        /\ \A r \in Indices("micro_benchmarks.run") :
             \A op \in InstallOps :
                \E j \in Indices(op) : j < r /\ Completed(j)
        /\ outcome = "Done" =>
             /\ PhaseOps = <<"dotnet.install", "benchview.install">>
                           \o Repeat("micro_benchmarks.run",
                                     Len(argv.frameworks))
                           \o <<"benchview.run_scripts">>
             /\ RunFrameworks = argv.frameworks

C4_Witness ==
    /\ outcome = "Done"
    /\ RunOnlyMode(argv)
    /\ Len(argv.frameworks) = 2
    /\ Indices("benchview.run_scripts") # {}

\* C5: an invocation with both --build-only and --run-only makes no
\* collaborator call at all and does not end normally.
C5_BothModesRejected ==
    (argv.build_only /\ argv.run_only) =>
        /\ calls = <<>>
        /\ tool_calls = <<>>
        /\ outcome # "Done"

\* C6: when report generation is asked for and the submission name is None
\* or empty, no collaborator is ever called, the environment variable is
\* never written, the invocation never ends normally, and once the
\* arguments are parsed it ends with the RuntimeError of the validation.
C6_MissingNameFailsEarly ==
    (argv.generate_benchview_data
     /\ argv.benchview_submission_name \in {None, ""})
    => /\ calls = <<>>
       /\ tool_calls = <<>>
       /\ environ = None
       /\ outcome # "Done"
       /\ pc \in {"validate_runtime", "process_arguments", "setup_loggers",
                  "check_benchview", "exit"}
       /\ (pc = "exit" /\ loggers) =>
             (outcome = "Failed" /\ error = "RuntimeError")

C6_Witness ==
    /\ argv.generate_benchview_data
    /\ argv.benchview_submission_name = ""
    /\ pc = "exit"
    /\ error = "RuntimeError"
    /\ calls = <<>>

\* C7: of two init_tools calls with identical parameters, the first having
\* succeeded, the second calls no installer.
C7_SecondCallInstallsNothing ==
    \A i, j \in 1..Len(tool_calls) :
        (/\ i < j
         /\ tool_calls[i].params = tool_calls[j].params
         /\ tool_calls[i].result = "ok")
        => \A k \in 1..Len(calls) : calls[k].inv # j

\* the collaborator calls made during the n-th init_tools call
CallsOf(n, op) == {k \in Indices(op) : calls[k].inv = n}

\* C8: an init_tools call in which one of the two installs failed leaves no
\* semaphore for its parameters (as long as no later call with them has
\* succeeded), and a later, finished call with the same parameters has
\* skipped neither install: it called the toolchain install, and the
\* reporting-tool install too unless its toolchain install failed again.
C8_PartialFailureRetried ==
    \A i \in 1..Len(tool_calls) :
        tool_calls[i].result = "raised" =>
        /\ (\A j \in (i + 1)..Len(tool_calls) :
               tool_calls[j].params = tool_calls[i].params
                   => tool_calls[j].result # "ok")
           => ToolKey(tool_calls[i].params) \notin marker
        /\ \A j \in (i + 1)..Len(tool_calls) :
              (/\ tool_calls[j].params = tool_calls[i].params
               /\ tool_calls[j].result # "pending")
              => /\ Cardinality(CallsOf(j, "dotnet.install")) = 1
                 /\ \/ Cardinality(CallsOf(j, "benchview.install")) = 1
                    \/ \E k \in CallsOf(j, "dotnet.install") :
                          calls[k].result = "raised"

C8_Witness ==
    /\ Len(tool_calls) = 2
    /\ tool_calls[1].params = tool_calls[2].params
    /\ tool_calls[1].result = "raised"
    /\ tool_calls[2].result = "ok"
    /\ Len(calls) = 4
    /\ calls[1].result = "ok"
    /\ calls[2].result = "raised"

\* C9: a run call that reports an ordinary failure does not end the
\* invocation: right after it the loop goes on, the invocation fails only
\* if a later call raises, and when it ends with no call having raised,
\* every requested framework has been run and the report call was made.
C9_RunFailureContinues ==
    \A i \in Indices("micro_benchmarks.run") :
        calls[i].result = "failed" =>
        /\ i = Len(calls) => (pc = "run_loop" /\ outcome = "Running")
        /\ outcome = "Failed" =>
              \E j \in (i + 1)..Len(calls) : calls[j].result = "raised"
        /\ (pc = "exit" /\ NoneRaised) =>
              /\ outcome = "Done"
              /\ RunFrameworks = args.frameworks
              /\ \E p \in Indices("benchview.run_scripts") : p > i

C9_Witness ==
    /\ outcome = "Done"
    /\ args.frameworks = <<"net6.0", "net7.0">>
    /\ Len(RunLog) = 2
    /\ RunLog[1].result = "failed"
    /\ RunLog[2].result = "ok"
    /\ Indices("benchview.run_scripts") # {}

\* C10: a failed install or a failed build is the last collaborator call of
\* the invocation, which ends Failed.
C10_InstallOrBuildFailureIsTerminal ==
    \A i \in 1..Len(calls) :
        (/\ calls[i].op \in InstallOps \cup {"micro_benchmarks.build"}
         /\ calls[i].result = "raised")
        => /\ i = Len(calls)
           /\ outcome = "Failed"
           /\ pc = "exit"

C10_Witness ==
    /\ outcome = "Failed"
    /\ calls # <<>>
    /\ Active.op = "micro_benchmarks.build"
    /\ Active.result = "raised"
    /\ ~argv.build_only

\* C11: the report call is made only in invocations that asked for report
\* generation and gave a usable submission name.
C11_ReportOnlyWhenRequested ==
    Indices("benchview.run_scripts") # {} =>
        /\ argv.generate_benchview_data
        /\ Truthy(argv.benchview_submission_name)

\* lines 252-253: the script passes nothing to sys.exit, so the status is 0
\* when __main returns, 2 when argparse rejects the command line and 1 when
\* an exception leaves __main
ExitStatus ==
    IF outcome = "Done" THEN 0
    ELSE IF error = "ArgumentError" THEN 2
    ELSE 1

\* the collaborator calls the mode asks for have all been made and all
\* succeeded
RequiredPhasesSucceeded ==
    /\ AllOk
    /\ \A op \in InstallOps : Indices(op) # {}
    /\ BuildRequested(argv) => Indices("micro_benchmarks.build") # {}
    /\ RunRequested(argv) =>
          /\ RunFrameworks = argv.frameworks
          /\ Indices("benchview.run_scripts") # {}

\* C12: when the process has ended, its exit status is 0 exactly when every
\* phase the mode requires completed successfully; in particular it is not
\* 0 when a validation, an install, the build, a run or the report failed.
C12_ExitStatusReflectsFailure ==
    pc = "exit" =>
        /\ (ExitStatus = 0) <=> RequiredPhasesSucceeded
        /\ (\E i \in 1..Len(calls) : calls[i].result \in {"failed", "raised"})
              => ExitStatus # 0

\* C14 as stated: the build call finds the variable set to the joined list
\* it is passed, and the write is the step right before the build call.
C14_EnvironWrittenRightBeforeBuild ==
    /\ [](\A b \in Indices("micro_benchmarks.build") :
             environ = Join(";", calls[b].arg))
    /\ [][(pc = "set_environ" /\ BuildRequested(args)) => pc' = "build"]_vars

\* C14, amended: whenever a build call has been made (running or returned),
\* the variable holds the semicolon-joined list of the resolved monikers,
\* which is the list build was passed; the write comes after both installs
\* and before dotnet.info, and the build call is the call right after
\* dotnet.info.
C14_EnvironSetBeforeInfoAndBuild ==
    /\ \A b \in Indices("micro_benchmarks.build") :
          /\ environ = Join(";", calls[b].arg)
          /\ calls[b].arg = [i \in 1..Len(argv.frameworks) |->
                                resolver[argv.frameworks[i]]]
          /\ b > 1
          /\ calls[b - 1].op = "dotnet.info"
          /\ calls[b - 1].result = "ok"
    /\ environ = None => Indices("dotnet.info") = {}
    /\ environ # None =>
          /\ environ = Join(";", target_framework_monikers)
          /\ \A op \in InstallOps :
                \E j \in Indices(op) : calls[j].result = "ok"

C14_Witness ==
    /\ calls # <<>>
    /\ Active.op = "micro_benchmarks.build"
    /\ Active.result = "pending"
    /\ Len(Active.arg) = 2
    /\ environ = "net6.0-windows;net7.0"

NothingDone ==
    /\ args = Unparsed
    /\ ~loggers
    /\ target_framework_monikers = <<>>
    /\ calls = <<>>
    /\ tool_calls = <<>>
    /\ environ = None

\* C15: the runtime check is the first step: while it has not been passed,
\* and when it has failed, no argument is parsed, no logger is set up, and
\* no validation, install, build, run or report has taken place.
C15_RuntimeCheckFirst ==
    /\ pc = "validate_runtime" => NothingDone
    /\ error = "UnsupportedRuntimeError" => (NothingDone /\ outcome = "Failed")
    /\ ~NothingDone => pc # "validate_runtime"

C15_Witness ==
    /\ pc = "exit"
    /\ outcome = "Failed"
    /\ error = "UnsupportedRuntimeError"

RECURSIVE Dedup(_)
\* order-preserving de-duplication: each value once, at its first occurrence
Dedup(s) ==
    IF s = <<>> THEN <<>>
    ELSE LET front == Dedup(SubSeq(s, 1, Len(s) - 1))
             last == s[Len(s)]
         IN IF \E i \in 1..Len(front) : front[i] = last
            THEN front
            ELSE Append(front, last)

\* C16: the channel list handed to dotnet.install is the de-duplicated list
\* of the channels of the monikers init_tools was given.
C16_ChannelsDeduplicated ==
    \A k \in Indices("dotnet.install") :
        LET tfms == tool_calls[calls[k].inv].params.target_framework_monikers
        IN calls[k].arg = Dedup([i \in 1..Len(tfms) |-> get_channel(tfms[i])])

PhaseRank(op) ==
    CASE op = "dotnet.install" -> 1
      [] op = "benchview.install" -> 2
      [] op = "dotnet.info" -> 3
      [] op = "micro_benchmarks.build" -> 4
      [] op = "micro_benchmarks.run" -> 5
      [] op = "benchview.run_scripts" -> 6

\* C17: in one invocation each install, the build and the report are called
\* at most once, the run calls made so far are the first frameworks of the
\* list, one call per position, and the calls never go back to an earlier
\* phase.
C17_StrictlyForward ==
    /\ \A op \in InstallOps \cup {"micro_benchmarks.build",
                                  "benchview.run_scripts"} :
          Cardinality(Indices(op)) <= 1
    /\ Len(RunLog) <= Len(argv.frameworks)
    /\ RunFrameworks = SubSeq(argv.frameworks, 1, Len(RunLog))
    /\ \A i, j \in 1..Len(calls) :
          i < j => PhaseRank(calls[i].op) <= PhaseRank(calls[j].op)
    /\ Len(tool_calls) <= 1

C17_Witness ==
    /\ outcome = "Done"
    /\ FullMode(argv)
    /\ Len(RunLog) = 2
    /\ RunLog[1].result = "failed"
    /\ Len(calls) = 7

\* C18: in full mode every framework handed to a run call is one of the
\* monikers handed to the build call.
C18_RunTargetsWereBuilt ==
    FullMode(argv) =>
        \A r \in Indices("micro_benchmarks.run") :
            \A b \in Indices("micro_benchmarks.build") :
                \E i \in 1..Len(calls[b].arg) :
                    calls[b].arg[i] = calls[r].arg[1]

CallCountsBounded ==
    /\ Cardinality(Indices("dotnet.install")
                   \cup Indices("benchview.install")) <= 2
    /\ Cardinality(Indices("micro_benchmarks.build")) <= 1
    /\ Cardinality(Indices("micro_benchmarks.run")) <= Len(argv.frameworks)
    /\ Cardinality(Indices("benchview.run_scripts")) <= 1

\* C19: every invocation ends, Done or Failed, and stays ended; it never
\* makes more than 2 install calls, 1 build call, one run call per requested
\* framework and 1 report call, and makes no call once it has ended.
C19_Termination ==
    /\ []CallCountsBounded
    /\ <>[](pc = "exit" /\ outcome \in {"Done", "Failed"})
    /\ [][pc = "exit" => calls' = calls]_vars

C19_Witness ==
    /\ pc = "exit"
    /\ outcome = "Done"
    /\ Cardinality(Indices("dotnet.install")
                   \cup Indices("benchview.install")) = 2
    /\ Cardinality(Indices("micro_benchmarks.build")) = 1
    /\ Cardinality(Indices("micro_benchmarks.run")) = 2
    /\ Cardinality(Indices("benchview.run_scripts")) = 1

RECURSIVE NumberOf(_)
\* the number a string of digits writes (a blank counts as no digit)
NumberOf(chars) ==
    IF chars = <<>> THEN 0
    ELSE 10 * NumberOf(SubSeq(chars, 1, Len(chars) - 1))
         + DigitValue(chars[Len(chars)])

AllDigits(chars) == \A i \in 1..Len(chars) : chars[i] \in Digits

\* The string reads YYYY-m-dTH:M:SZ, T and Z in either case, with a year of
\* four digits and a month, day, hour, minute and second of one or two
\* digits (a one-digit day may be written with a blank before it), and it
\* names an existing date and time of day.
WellFormedTimestamp(dt) ==
    \E lm, ld, lh, lmi, ls \in {1, 2} :
        LET pm == 6
            pd == pm + lm + 1
            ph == pd + ld + 1
            pmi == ph + lh + 1
            ps == pmi + lmi + 1
            pz == ps + ls
            year == SubSeq(dt, 1, 4)
            month == SubSeq(dt, pm, pd - 2)
            day == SubSeq(dt, pd, ph - 2)
            hour == SubSeq(dt, ph, pmi - 2)
            minute == SubSeq(dt, pmi, ps - 2)
            second == SubSeq(dt, ps, pz - 1)
        IN /\ Len(dt) = pz
           /\ dt[5] = "-" /\ dt[pd - 1] = "-"
           /\ dt[ph - 1] \in {"T", "t"}
           /\ dt[pmi - 1] = ":" /\ dt[ps - 1] = ":"
           /\ dt[pz] \in {"Z", "z"}
           /\ AllDigits(year) /\ AllDigits(month) /\ AllDigits(hour)
           /\ AllDigits(minute) /\ AllDigits(second)
           /\ \/ AllDigits(day)
              \/ (ld = 2 /\ day[1] = " " /\ day[2] \in Digits)
           /\ NumberOf(year) >= 1
           /\ NumberOf(month) \in 1..12
           /\ NumberOf(day) \in 1..DaysInMonth(NumberOf(year), NumberOf(month))
           /\ NumberOf(hour) \in 0..23
           /\ NumberOf(minute) \in 0..59
           /\ NumberOf(second) \in 0..59

\* C13 as stated: once the value has been validated, a string that matches
\* the pattern of the format is accepted and returned unchanged, and any
\* other string is rejected with the error that names it.
C13_EveryMatchAccepted ==
    pc # "parse_timestamp" =>
        IF MatchesFormat(argv.cli_source_timestamp)
        THEN /\ pc = "parsed"
             /\ args.cli_source_timestamp = argv.cli_source_timestamp
        ELSE /\ outcome = "Failed"
             /\ error = <<"Datetime \"">> \o argv.cli_source_timestamp
                        \o <<"\" is in the wrong format.">>

\* C13, amended: a string that matches the pattern and names an existing
\* date and time is accepted and returned unchanged; every other string,
\* among them those that match the pattern but name year 0000, a day past
\* the end of the month or second 60 or 61, is rejected with the error that
\* names it.
C13_WellFormedEchoedElseRejected ==
    pc # "parse_timestamp" =>
        IF WellFormedTimestamp(argv.cli_source_timestamp)
        THEN /\ pc = "parsed"
             /\ outcome = "Running"
             /\ args.cli_source_timestamp = argv.cli_source_timestamp
        ELSE /\ outcome = "Failed"
             /\ args = Unparsed
             /\ error = <<"Datetime \"">> \o argv.cli_source_timestamp
                        \o <<"\" is in the wrong format.">>

C13_Witness ==
    /\ pc = "parsed"
    /\ argv.cli_source_timestamp =
          <<"2", "0", "2", "0", "-", "2", "-", "2", "9", "t", "7", ":",
            "5", "9", ":", "5", "z">>
    /\ args.cli_source_timestamp = argv.cli_source_timestamp

====
